---- MODULE Spec2Model ----
(***************************************************************************)
(* Product REST API (express + express-validator + sequelize).             *)
(* One action per route of router.ts; every action is the whole request:   *)
(* the route's validation chains, handleInputErrors and the handler.       *)
(* Strings are sequences of one-character strings, so that the validators  *)
(* (isInt, isNumeric, isEmpty, isBoolean) and the JavaScript coercions     *)
(* (String(v), v > 0) are computed, character by character.                *)
(***************************************************************************)
EXTENDS Integers, Sequences, FiniteSets, TLC

VARIABLES products, nextId, req, res, handler, pre, lastRead, db

vars == <<products, nextId, req, res, handler, pre, lastRead, db>>

\* Number of rows the table may ever receive (caps the serial id counter).
MaxProducts == 2

-----------------------------------------------------------------------------
(* JavaScript values of a JSON body or of a path parameter. *)

Undefined == [t |-> "undefined", n |-> 0, s |-> <<>>, b |-> FALSE]
Num(n) == [t |-> "number", n |-> n, s |-> <<>>, b |-> FALSE]
Str(s) == [t |-> "string", n |-> 0, s |-> s, b |-> FALSE]
Bool(b) == [t |-> "boolean", n |-> 0, s |-> <<>>, b |-> b]

Digits == <<"0", "1", "2", "3", "4", "5", "6", "7", "8", "9">>

IsDigit(c) == \E d \in 1..10 : Digits[d] = c

DigitVal(c) == (CHOOSE d \in 1..10 : Digits[d] = c) - 1

IsDigits(s) == \A i \in 1..Len(s) : IsDigit(s[i])

RECURSIVE NatToStr(_)
NatToStr(n) == IF n < 10 THEN <<Digits[n + 1]>>
               ELSE NatToStr(n \div 10) \o <<Digits[(n % 10) + 1]>>

\* String(n) of an integer number
IntToStr(n) == IF n < 0 THEN <<"-">> \o NatToStr(0 - n) ELSE NatToStr(n)

\* express-validator's toString(value), applied before every standard validator
toString(value) ==
    CASE value.t = "undefined" -> <<>>
      [] value.t = "number" -> IntToStr(value.n)
      [] value.t = "boolean" -> IF value.b THEN <<"t", "r", "u", "e">>
                                ELSE <<"f", "a", "l", "s", "e">>
      [] OTHER -> value.s

StripSign(s) == IF Len(s) > 0 /\ s[1] \in {"+", "-"} THEN Tail(s) ELSE s

\* validator.isInt: /^(?:[-+]?(?:0|[1-9][0-9]*))$/
isInt(s) ==
    LET u == StripSign(s)
    IN  Len(u) > 0 /\ IsDigits(u) /\ (u[1] = "0" => Len(u) = 1)

\* validator.isNumeric: /^[+-]?([0-9]*[.])?[0-9]+$/
isNumeric(s) ==
    LET u == StripSign(s)
    IN  \/ Len(u) > 0 /\ IsDigits(u)
        \/ \E k \in 1..Len(u) :
              /\ u[k] = "."
              /\ IsDigits(SubSeq(u, 1, k - 1))
              /\ k < Len(u)
              /\ IsDigits(SubSeq(u, k + 1, Len(u)))

\* validator.isEmpty
isEmpty(s) == Len(s) = 0

\* validator.isBoolean (strict list)
isBoolean(s) ==
    s \in {<<"t", "r", "u", "e">>, <<"f", "a", "l", "s", "e">>, <<"1">>, <<"0">>}

RECURSIVE TrimLeft(_)
TrimLeft(s) == IF Len(s) > 0 /\ s[1] = " " THEN TrimLeft(Tail(s)) ELSE s

RECURSIVE TrimRight(_)
TrimRight(s) == IF Len(s) > 0 /\ s[Len(s)] = " "
                THEN TrimRight(SubSeq(s, 1, Len(s) - 1)) ELSE s

RECURSIVE DigitsToNat(_)
DigitsToNat(s) == IF Len(s) = 0 THEN 0
                  ELSE 10 * DigitsToNat(SubSeq(s, 1, Len(s) - 1)) + DigitVal(s[Len(s)])

NaN == [nan |-> TRUE, v |-> 0]
Number(v) == [nan |-> FALSE, v |-> v]

\* JavaScript StringToNumber on strings without '.', exponent, radix prefix
\* or "Infinity": white space is trimmed, "" is 0, a signed run of digits is
\* its value, anything else is NaN.
StringToNumber(s) ==
    LET u == TrimRight(TrimLeft(s))
        d == StripSign(u)
    IN  IF Len(u) = 0 THEN Number(0)
        ELSE IF Len(d) > 0 /\ IsDigits(d)
             THEN Number(IF u[1] = "-" THEN 0 - DigitsToNat(d) ELSE DigitsToNat(d))
             ELSE NaN

\* JavaScript ToNumber
ToNumber(value) ==
    CASE value.t = "undefined" -> NaN
      [] value.t = "number" -> Number(value.n)
      [] value.t = "boolean" -> Number(IF value.b THEN 1 ELSE 0)
      [] OTHER -> StringToNumber(value.s)

-----------------------------------------------------------------------------
(* Requests and responses. *)

EmptyBody == [name |-> Undefined, price |-> Undefined, availability |-> Undefined]

Request(method, path, id, body) ==
    [method |-> method, path |-> path, id |-> id, body |-> body]

\* The value a validation chain reads: param(path) or body(path)
Field(r, location, path) ==
    IF location = "params"
    THEN IF path = "id" THEN r.id ELSE Undefined
    ELSE CASE path = "name" -> r.body.name
           [] path = "price" -> r.body.price
           [] path = "availability" -> r.body.availability
           [] OTHER -> Undefined

NoResponse ==
    [status |-> 0, keys |-> {}, errors |-> <<>>, error |-> "", data |-> <<>>,
     message |-> ""]

-----------------------------------------------------------------------------
(* The validation chains of router.ts.  The messages are written without *)
(* their accents ('Valor no valido', 'Precio no valido').                *)

Check(validator, negated, message) ==
    [validator |-> validator, negated |-> negated, message |-> message]

\* Variant of PriceCustom: value >= 0
PriceCustomGe(value) == LET x == ToNumber(value) IN ~x.nan /\ x.v >= 0

\* .custom(value => value > 0)
PriceCustom(value) == LET x == ToNumber(value) IN ~x.nan /\ x.v > 0

\* One validator of a chain, on the field's value
Passes(check, value) ==
    LET str == toString(value)
        ok == CASE check.validator = "isInt" -> isInt(str)
                [] check.validator = "isNumeric" -> isNumeric(str)
                [] check.validator = "isEmpty" -> isEmpty(str)
                [] check.validator = "isBoolean" -> isBoolean(str)
                [] OTHER -> PriceCustom(value)
    IN  IF check.negated THEN ~ok ELSE ok

\* Variant of param_id: isNumeric in place of isInt
param_id_isNumeric ==
    [location |-> "params", path |-> "id",
     checks |-> <<Check("isNumeric", FALSE, "ID in not valid")>>]

\* Variant of param_id: body('id') in place of param('id')
param_id_inBody ==
    [location |-> "body", path |-> "id",
     checks |-> <<Check("isInt", FALSE, "ID in not valid")>>]

\* param('id').isInt().withMessage('ID in not valid')
param_id ==
    [location |-> "params", path |-> "id",
     checks |-> <<Check("isInt", FALSE, "ID in not valid")>>]

\* Variant of body_name: isEmpty in place of notEmpty
body_name_isEmpty ==
    [location |-> "body", path |-> "name",
     checks |-> <<Check("isEmpty", FALSE, "El nombre del Producto no puede ir vacio")>>]

\* body('name').notEmpty().withMessage(...)
body_name ==
    [location |-> "body", path |-> "name",
     checks |-> <<Check("isEmpty", TRUE, "El nombre del Producto no puede ir vacio")>>]

\* Variant of body_price: the notEmpty check left out
body_price_noNotEmpty ==
    [location |-> "body", path |-> "price",
     checks |-> <<Check("isNumeric", FALSE, "Valor no valido"),
                  Check("custom", FALSE, "Precio no valido")>>]

\* Variant of body_price: the custom check declared first
body_price_customFirst ==
    [location |-> "body", path |-> "price",
     checks |-> <<Check("custom", FALSE, "Precio no valido"),
                  Check("isNumeric", FALSE, "Valor no valido"),
                  Check("isEmpty", TRUE, "El precio del Producto no puede ir vacio")>>]

\* body('price').isNumeric()...notEmpty()...custom(value => value > 0)...
body_price ==
    [location |-> "body", path |-> "price",
     checks |-> <<Check("isNumeric", FALSE, "Valor no valido"),
                  Check("isEmpty", TRUE, "El precio del Producto no puede ir vacio"),
                  Check("custom", FALSE, "Precio no valido")>>]

\* body('availability').isBoolean().withMessage(...)
body_availability ==
    [location |-> "body", path |-> "availability",
     checks |-> <<Check("isBoolean", FALSE, "Valor no valido para disponibilidad")>>]

\* A chain runs every validator (no bail): one error per failing validator,
\* in chain order.
RunChain(chain, r) ==
    LET value == Field(r, chain.location, chain.path)
        failed == SelectSeq(chain.checks, LAMBDA c : ~Passes(c, value))
    IN  [i \in 1..Len(failed) |->
            [msg |-> failed[i].message, path |-> chain.path,
             location |-> chain.location]]

\* validationResult(req).array(): the chains' errors in declaration order
RECURSIVE validationResult(_, _)
validationResult(chains, r) ==
    IF Len(chains) = 0 THEN <<>>
    ELSE RunChain(Head(chains), r) \o validationResult(Tail(chains), r)

-----------------------------------------------------------------------------
(* The Product table and the handlers of handlers/product.               *)
(* A row is [id, name, price, availability]: id is the serial primary    *)
(* key, name a text, price a number, availability a boolean.             *)

Result(ps, nid, response, h) ==
    [products |-> ps, nextId |-> nid, res |-> response, handler |-> h]

Json(status, data) ==
    [status |-> status, keys |-> {"data"}, errors |-> <<>>, error |-> "",
     data |-> data, message |-> ""]

NotFound ==
    [status |-> 404, keys |-> {"error"}, errors |-> <<>>,
     error |-> "Product not found", data |-> <<>>, message |-> ""]

\* Product.findByPk(id): the rows whose key is the number the parameter denotes
findByPk(ps, id) ==
    LET k == ToNumber(id) IN {p \in ps : ~k.nan /\ p.id = k.v}

\* Product.findAll(): the rows, by ascending id
RECURSIVE findAll(_)
findAll(ps) ==
    IF ps = {} THEN <<>>
    ELSE LET first == CHOOSE p \in ps : \A q \in ps : p.id <= q.id
         IN  <<first>> \o findAll(ps \ {first})

\* A boolean column's value for an input that isBoolean accepts
ToBooleanColumn(value) == toString(value) \in {<<"t", "r", "u", "e">>, <<"1">>}

getProducts(r, ps, nid) == Result(ps, nid, Json(200, findAll(ps)), "getProducts")

getProductById(r, ps, nid) ==
    LET found == findByPk(ps, r.id)
    IN  IF found = {} THEN Result(ps, nid, NotFound, "getProductById")
        ELSE Result(ps, nid, Json(200, <<CHOOSE p \in found : TRUE>>), "getProductById")

createProduct(r, ps, nid) ==
    LET product == [id |-> nid, name |-> toString(r.body.name),
                    price |-> ToNumber(r.body.price).v, availability |-> TRUE]
    IN  Result(ps \cup {product}, nid + 1, Json(201, <<product>>), "createProduct")

updateProduct(r, ps, nid) ==
    LET found == findByPk(ps, r.id)
    IN  IF found = {} THEN Result(ps, nid, NotFound, "updateProduct")
        ELSE LET old == CHOOSE p \in found : TRUE
                 new == [id |-> old.id, name |-> toString(r.body.name),
                         price |-> ToNumber(r.body.price).v,
                         availability |-> ToBooleanColumn(r.body.availability)]
             IN  Result((ps \ {old}) \cup {new}, nid, Json(200, <<new>>), "updateProduct")

updateAvailability(r, ps, nid) ==
    LET found == findByPk(ps, r.id)
    IN  IF found = {} THEN Result(ps, nid, NotFound, "updateAvailability")
        ELSE LET old == CHOOSE p \in found : TRUE
                 new == [old EXCEPT !.availability = ~old.availability]
             IN  Result((ps \ {old}) \cup {new}, nid, Json(200, <<new>>),
                        "updateAvailability")

deleteProduct(r, ps, nid) ==
    LET found == findByPk(ps, r.id)
    IN  IF found = {} THEN Result(ps, nid, NotFound, "deleteProduct")
        ELSE Result(ps \ found, nid,
                    [Json(200, <<>>) EXCEPT !.message = "Product deleted"],
                    "deleteProduct")

RunHandler(h, r, ps, nid) ==
    CASE h = "getProducts" -> getProducts(r, ps, nid)
      [] h = "getProductById" -> getProductById(r, ps, nid)
      [] h = "createProduct" -> createProduct(r, ps, nid)
      [] h = "updateProduct" -> updateProduct(r, ps, nid)
      [] h = "updateAvailability" -> updateAvailability(r, ps, nid)
      [] OTHER -> deleteProduct(r, ps, nid)

\* middleware handleInputErrors: 400 {errors} and no next(), or next()
handleInputErrors(errors, next, ps, nid) ==
    IF Len(errors) > 0
    THEN Result(ps, nid,
                [status |-> 400, keys |-> {"errors"}, errors |-> errors,
                 error |-> "", data |-> <<>>, message |-> ""],
                "none")
    ELSE next

-----------------------------------------------------------------------------
(* The routes of router.ts: validation chains, then the middlewares, then *)
(* the handler.                                                           *)

Route(chains, middleware, h) ==
    [chains |-> chains, middleware |-> middleware, handler |-> h]

router_get == Route(<<>>, <<>>, "getProducts")

\* Variant of router_get_id: wired to the patch handler
router_get_id_patchHandler ==
    Route(<<param_id>>, <<"handleInputErrors">>, "updateAvailability")

router_get_id == Route(<<param_id>>, <<"handleInputErrors">>, "getProductById")

\* Variant of router_post: handleInputErrors left out
router_post_noGate == Route(<<body_name, body_price>>, <<>>, "createProduct")

router_post ==
    Route(<<body_name, body_price>>, <<"handleInputErrors">>, "createProduct")

\* Variant of router_put: handleInputErrors left out
router_put_noGate ==
    Route(<<param_id, body_name, body_price, body_availability>>, <<>>, "updateProduct")

\* Variant of router_put: the availability chain left out
router_put_noAvailability ==
    Route(<<param_id, body_name, body_price>>, <<"handleInputErrors">>, "updateProduct")

\* Variant of router_put: wired to the patch handler
router_put_patchHandler ==
    Route(<<param_id, body_name, body_price, body_availability>>,
          <<"handleInputErrors">>, "updateAvailability")

router_put ==
    Route(<<param_id, body_name, body_price, body_availability>>,
          <<"handleInputErrors">>, "updateProduct")

\* Variant of router_patch: declared with the chains of router.put
router_patch_putChains ==
    Route(<<param_id, body_name, body_price, body_availability>>,
          <<"handleInputErrors">>, "updateAvailability")

router_patch == Route(<<param_id>>, <<"handleInputErrors">>, "updateAvailability")

router_delete == Route(<<param_id>>, <<"handleInputErrors">>, "deleteProduct")

\* express runs the route's stack in order on the request
Dispatch(route, r, ps, nid) ==
    LET errors == validationResult(route.chains, r)
        next == RunHandler(route.handler, r, ps, nid)
    IN  IF Len(route.middleware) > 0
        THEN handleInputErrors(errors, next, ps, nid)
        ELSE next

-----------------------------------------------------------------------------
(* The requests the clients send. *)

IdParams ==
    {Str(IntToStr(i)) : i \in 1..MaxProducts}
        \cup {Str(<<"2", "0", "0", "0">>), Str(<<"1", ".", "5">>),
              Str(<<"n", "o", "t", "-", "v", "a", "l", "i", "d">>)}

NameValues ==
    {Undefined, Str(<<>>), Str(<<"M", "o", "u", "s", "e">>)}

PriceValues ==
    {Undefined, Num(0), Num(50), Str(<<"3", "0", "0">>),
     Str(<<"h", "o", "l", "a">>), Str(<<" ", "5">>)}

AvailabilityValues ==
    {Undefined, Bool(TRUE), Bool(FALSE), Str(<<"s", "i">>)}

PostBodies ==
    {[name |-> n, price |-> p, availability |-> Undefined] :
        n \in NameValues, p \in PriceValues}

PutBodies ==
    {[name |-> n, price |-> p, availability |-> a] :
        n \in NameValues, p \in PriceValues, a \in AvailabilityValues}

-----------------------------------------------------------------------------
(* The server: the table, the serial counter, the request being served,   *)
(* its response and the handler it reached.  Requests are served one at a *)
(* time: a route's action serves a whole request, EndRequest drops the    *)
(* request and response objects.  The handlers query the table, so a      *)
(* request reaches a handler only once db.sync() was called; a request    *)
(* the gate rejects needs no table and is served from the moment the      *)
(* server exists.  Two variables record the past: lastRead holds, for     *)
(* each id read with 200 since the last create, update, patch or delete   *)
(* request, the data that read returned; pre is the table, the counter    *)
(* and lastRead as they were when the request arrived.                    *)

NoRequest == Request("NONE", "", Undefined, EmptyBody)

(* connectDB of server.ts.  db.pc is the position of the call made when the *)
(* module loads: "start" before it, "authenticate" while it awaits          *)
(* db.authenticate(), "done" once it has returned; db.auth is the outcome   *)
(* of db.authenticate(), db.synced whether db.sync() was called, db.log the *)
(* console.log calls, db.thrown whether the call's promise rejected.        *)

MsgConnectError == "Hubo un error al conectar la base de datos"

\* console.log(error): the error object
LogError == [type |-> "object", text |-> "error"]

\* console.log(colors.red.bold(message)): a string holding the message
LogString(message) == [type |-> "string", text |-> message]

DbStart ==
    [pc |-> "start", auth |-> "pending", synced |-> FALSE, log |-> <<>>,
     thrown |-> FALSE]

\* Variant of connectDB_settled: no try/catch around the await
connectDB_settled_noCatch(d, rejected) ==
    IF rejected
    THEN [d EXCEPT !.pc = "done", !.auth = "rejected", !.thrown = TRUE]
    ELSE [d EXCEPT !.pc = "done", !.auth = "ok", !.synced = TRUE]

\* connectDB from the point where db.authenticate() settles: db.sync() after
\* a resolution, the catch block after a rejection
connectDB_settled(d, rejected) ==
    IF rejected
    THEN [d EXCEPT !.pc = "done", !.auth = "rejected",
                   !.log = @ \o <<LogError, LogString(MsgConnectError)>>]
    ELSE [d EXCEPT !.pc = "done", !.auth = "ok", !.synced = TRUE]

Init ==
    /\ products = {}
    /\ nextId = 1
    /\ req = NoRequest
    /\ res = NoResponse
    /\ handler = "none"
    /\ pre = [products |-> {}, nextId |-> 1, lastRead |-> {}]
    /\ lastRead = {}
    /\ db = DbStart

\* connectDB(): runs up to await db.authenticate()
ConnectDB ==
    /\ db.pc = "start"
    /\ db' = [db EXCEPT !.pc = "authenticate"]
    /\ UNCHANGED <<products, nextId, req, res, handler, pre, lastRead>>

\* db.authenticate() resolves
AuthenticateResolves ==
    /\ db.pc = "authenticate"
    /\ db' = connectDB_settled(db, FALSE)
    /\ UNCHANGED <<products, nextId, req, res, handler, pre, lastRead>>

\* db.authenticate() rejects
AuthenticateRejects ==
    /\ db.pc = "authenticate"
    /\ db' = connectDB_settled(db, TRUE)
    /\ UNCHANGED <<products, nextId, req, res, handler, pre, lastRead>>

Serve(route, r) ==
    /\ req = NoRequest
    /\ db.pc # "start"
    /\ UNCHANGED db
    /\ \E out \in {Dispatch(route, r, products, nextId)} :
        /\ db.synced \/ out.handler = "none"
        /\ out.nextId <= MaxProducts + 1
        /\ products' = out.products
        /\ nextId' = out.nextId
        /\ req' = r
        /\ res' = out.res
        /\ handler' = out.handler
        /\ pre' = [products |-> products, nextId |-> nextId, lastRead |-> lastRead]
        /\ lastRead' =
              IF r.method # "GET" THEN {}
              ELSE IF r.path = "/:id" /\ out.res.status = 200
                   THEN {e \in lastRead : e.id # r.id}
                            \cup {[id |-> r.id, data |-> out.res.data]}
                   ELSE lastRead

GetProducts == Serve(router_get, Request("GET", "/", Undefined, EmptyBody))

GetProductById(id) == Serve(router_get_id, Request("GET", "/:id", id, EmptyBody))

CreateProduct(body) == Serve(router_post, Request("POST", "/", Undefined, body))

UpdateProduct(id, body) == Serve(router_put, Request("PUT", "/:id", id, body))

UpdateAvailability(id) == Serve(router_patch, Request("PATCH", "/:id", id, EmptyBody))

DeleteProduct(id) == Serve(router_delete, Request("DELETE", "/:id", id, EmptyBody))

EndRequest ==
    /\ req # NoRequest
    /\ req' = NoRequest
    /\ res' = NoResponse
    /\ handler' = "none"
    /\ pre' = [products |-> products, nextId |-> nextId, lastRead |-> lastRead]
    /\ UNCHANGED <<products, nextId, lastRead, db>>

Next ==
    \/ GetProducts
    \/ \E id \in IdParams : GetProductById(id)
    \/ \E body \in PostBodies : CreateProduct(body)
    \/ \E id \in IdParams, body \in PutBodies : UpdateProduct(id, body)
    \/ \E id \in IdParams : UpdateAvailability(id)
    \/ \E id \in IdParams : DeleteProduct(id)
    \/ EndRequest
    \/ ConnectDB
    \/ AuthenticateResolves
    \/ AuthenticateRejects

Spec == Init /\ [][Next]_vars

-----------------------------------------------------------------------------
(* Vocabulary of the properties. *)

MsgIdNotValid == "ID in not valid"
MsgNameEmpty == "El nombre del Producto no puede ir vacio"
MsgPriceNotNumeric == "Valor no valido"
MsgPriceEmpty == "El precio del Producto no puede ir vacio"
MsgPriceNotPositive == "Precio no valido"
MsgAvailability == "Valor no valido para disponibilidad"

Messages(errors) == [i \in 1..Len(errors) |-> errors[i].msg]

IsGetById == req.method = "GET" /\ req.path = "/:id"
IsPost == req.method = "POST"
IsPut == req.method = "PUT"
IsPatch == req.method = "PATCH"
IsDelete == req.method = "DELETE"
HasPathId == req.path = "/:id"

\* The route express selects for the request
RouteOf(r) ==
    CASE r.method = "GET" /\ r.path = "/:id" -> router_get_id
      [] r.method = "POST" -> router_post
      [] r.method = "PUT" -> router_put
      [] r.method = "PATCH" -> router_patch
      [] r.method = "DELETE" -> router_delete
      [] OTHER -> router_get

StoreUnchanged == products = pre.products /\ nextId = pre.nextId

IdIsInteger == isInt(req.id.s)

\* The rows, at the request's arrival, whose key the path id denotes
Addressed ==
    {p \in pre.products :
        IdIsInteger /\ p.id = StringToNumber(req.id.s).v}

NonEmptyName(v) == v.t = "string" /\ Len(v.s) > 0

\* A number above 0, or a string of digits denoting one
PositivePrice(v) ==
    \/ v.t = "number" /\ v.n > 0
    \/ v.t = "string" /\ Len(v.s) > 0 /\ IsDigits(v.s) /\ DigitsToNat(v.s) > 0

PriceOf(v) == IF v.t = "number" THEN v.n ELSE DigitsToNat(v.s)

ValidPostBody(b) == NonEmptyName(b.name) /\ PositivePrice(b.price)

ValidPutBody(b) == ValidPostBody(b) /\ b.availability.t = "boolean"

BodyErrors(r) == validationResult(<<body_name, body_price, body_availability>>, r)

-----------------------------------------------------------------------------
(* Properties. *)

\* C1: on every route with validation rules, a request whose validation
\* produced at least one error is answered 400 {errors: [...]} with those
\* errors, reaches no handler and leaves the table unchanged; a request with
\* no validation error reaches the route's handler.
C1_ErrorGate ==
    (req # NoRequest /\ (HasPathId \/ IsPost)) =>
        LET errors == validationResult(RouteOf(req).chains, req)
        IN  /\ Len(errors) > 0 =>
                /\ res.status = 400
                /\ res.keys = {"errors"}
                /\ res.errors = errors
                /\ handler = "none"
                /\ StoreUnchanged
            /\ Len(errors) = 0 => handler = RouteOf(req).handler

\* C1 witness: a PUT on a stored product rejected by the gate
C1_Witness ==
    /\ IsPut
    /\ Addressed # {}
    /\ Len(res.errors) > 0
    /\ res.status = 400
    /\ handler = "none"

\* C2 as stated: on GET, PUT, PATCH and DELETE /:id, a non-integer id is
\* answered 400 with exactly one error, "ID in not valid", whatever the body.
C2_OneErrorWhateverBody ==
    (HasPathId /\ ~IdIsInteger) =>
        /\ res.status = 400
        /\ Messages(res.errors) = <<MsgIdNotValid>>

\* C2 amended: a non-integer id is answered 400 and the first error is
\* "ID in not valid"; on GET, PATCH and DELETE it is the only error, on PUT
\* it is followed by the errors of the body's rules, so it is the only error
\* exactly when the body passes them.
C2_IdErrorFirst ==
    (HasPathId /\ ~IdIsInteger) =>
        /\ res.status = 400
        /\ Messages(res.errors) =
              IF IsPut THEN <<MsgIdNotValid>> \o Messages(BodyErrors(req))
              ELSE <<MsgIdNotValid>>
        /\ StoreUnchanged

\* C2 witness: a PUT with a non-integer id and a body that passes its rules
C2_Witness ==
    /\ IsPut
    /\ ~IdIsInteger
    /\ ValidPutBody(req.body)
    /\ res.status = 400
    /\ Len(res.errors) = 1

\* C3: POST with an empty body is answered 400 with exactly 4 errors, in
\* declaration order (name empty, price not numeric, price empty, price not
\* positive), and creates no product.
C3_EmptyPost ==
    (IsPost /\ req.body = EmptyBody) =>
        /\ res.status = 400
        /\ Messages(res.errors) =
              <<MsgNameEmpty, MsgPriceNotNumeric, MsgPriceEmpty, MsgPriceNotPositive>>
        /\ StoreUnchanged

\* C3 witness: an empty POST answered with 4 errors
C3_Witness ==
    /\ IsPost
    /\ req.body = EmptyBody
    /\ Len(res.errors) = 4

\* C4: PUT with an empty body on a stored product is answered 400 with
\* exactly 5 errors (the 4 of POST, then availability not boolean), no data,
\* and the product is unchanged.
C4_EmptyPut ==
    (IsPut /\ Addressed # {} /\ req.body = EmptyBody) =>
        /\ res.status = 400
        /\ Messages(res.errors) =
              <<MsgNameEmpty, MsgPriceNotNumeric, MsgPriceEmpty, MsgPriceNotPositive,
                MsgAvailability>>
        /\ "data" \notin res.keys
        /\ StoreUnchanged

\* C4 witness: an empty PUT on a stored product answered with 5 errors
C4_Witness ==
    /\ IsPut
    /\ Addressed # {}
    /\ req.body = EmptyBody
    /\ Len(res.errors) = 5

\* C5: a POST, or a PUT on a stored product, whose body is valid except that
\* price is 0 is answered 400 with exactly one error, the one of the price > 0
\* check, and the table is unchanged.
C5_PriceZero ==
    (/\ IsPost \/ (IsPut /\ Addressed # {})
     /\ NonEmptyName(req.body.name)
     /\ req.body.price = Num(0)
     /\ IsPut => req.body.availability.t = "boolean") =>
        /\ res.status = 400
        /\ Messages(res.errors) = <<MsgPriceNotPositive>>
        /\ StoreUnchanged

\* C5 witness: a PUT on a stored product with price 0 and otherwise valid
C5_Witness ==
    /\ IsPut
    /\ Addressed # {}
    /\ NonEmptyName(req.body.name)
    /\ req.body.price = Num(0)
    /\ req.body.availability.t = "boolean"
    /\ res.status = 400


\* C6 as stated: POST with a non-empty name and a price that is a non-empty
\* string failing the numeric check is answered 400 with exactly 2 errors,
\* price not numeric then price not positive, and creates no product.
C6_NonNumericTwoErrors ==
    (/\ IsPost
     /\ NonEmptyName(req.body.name)
     /\ req.body.price.t = "string"
     /\ Len(req.body.price.s) > 0
     /\ ~isNumeric(req.body.price.s)) =>
        /\ res.status = 400
        /\ Messages(res.errors) = <<MsgPriceNotNumeric, MsgPriceNotPositive>>
        /\ StoreUnchanged

\* C6 amended: such a request is answered 400 and creates no product; its
\* errors are price not numeric then price not positive when the string does
\* not convert to a number above 0 (such as "hola"), and price not numeric
\* alone when it does (such as " 5").
C6_NonNumericString ==
    (/\ IsPost
     /\ NonEmptyName(req.body.name)
     /\ req.body.price.t = "string"
     /\ Len(req.body.price.s) > 0
     /\ ~isNumeric(req.body.price.s)) =>
        LET x == StringToNumber(req.body.price.s)
        IN  /\ res.status = 400
            /\ Messages(res.errors) =
                  IF ~x.nan /\ x.v > 0 THEN <<MsgPriceNotNumeric>>
                  ELSE <<MsgPriceNotNumeric, MsgPriceNotPositive>>
            /\ StoreUnchanged

\* C6 witness: POST with price "hola" answered with 2 errors
C6_Witness ==
    /\ IsPost
    /\ NonEmptyName(req.body.name)
    /\ req.body.price = Str(<<"h", "o", "l", "a">>)
    /\ Len(res.errors) = 2

\* C7: get-by-id, update with a valid body, patch and delete on an integer id
\* that matches no stored product are answered 404 {error: "Product not
\* found"}, without data, and leave the table unchanged.
C7_NotFound ==
    (/\ IsGetById \/ (IsPut /\ ValidPutBody(req.body)) \/ IsPatch \/ IsDelete
     /\ IdIsInteger
     /\ Addressed = {}) =>
        /\ res.status = 404
        /\ res.keys = {"error"}
        /\ res.error = "Product not found"
        /\ StoreUnchanged

\* C7 witness: a valid PUT on an id of no stored product, the table not empty
C7_Witness ==
    /\ IsPut
    /\ ValidPutBody(req.body)
    /\ IdIsInteger
    /\ Addressed = {}
    /\ pre.products # {}
    /\ res.status = 404

\* C8: POST with a valid body is answered 201 with data; the table holds
\* exactly one more product, with the body's name and price, availability
\* true and an id no stored product had; the other products are unchanged.
C8_Create ==
    (IsPost /\ ValidPostBody(req.body)) =>
        /\ res.status = 201
        /\ res.keys = {"data"}
        /\ Len(res.data) = 1
        /\ \E p \in products :
              /\ products = pre.products \cup {p}
              /\ p \notin pre.products
              /\ res.data = <<p>>
              /\ p.name = req.body.name.s
              /\ p.price = PriceOf(req.body.price)
              /\ p.availability = TRUE
              /\ \A q \in pre.products : q.id # p.id

\* C8 witness: a product created while another one is stored
C8_Witness ==
    /\ IsPost
    /\ ValidPostBody(req.body)
    /\ pre.products # {}
    /\ res.status = 201

\* C9: PUT with a valid body on a stored product is answered 200 with data
\* and no errors; the product of that id then has the body's name, price and
\* availability, its id is unchanged and every other product is unchanged.
C9_Update ==
    (IsPut /\ Addressed # {} /\ ValidPutBody(req.body)) =>
        /\ res.status = 200
        /\ res.keys = {"data"}
        /\ Len(res.errors) = 0
        /\ \E old \in Addressed :
              LET new == [id |-> old.id, name |-> req.body.name.s,
                          price |-> PriceOf(req.body.price),
                          availability |-> req.body.availability.b]
              IN  /\ products = (pre.products \ {old}) \cup {new}
                  /\ res.data = <<new>>
        /\ nextId = pre.nextId

\* C9 witness: an update that changes one of two stored products
C9_Witness ==
    /\ IsPut
    /\ Addressed # {}
    /\ ValidPutBody(req.body)
    /\ Cardinality(pre.products) = 2
    /\ products # pre.products
    /\ res.status = 200

\* C10: GET / and GET /:id never change the table, and a GET /:id of an id
\* read with 200 since the last create, update, patch or delete request is
\* answered 200 with the same data as that earlier read.
C10_ReadIdempotent ==
    /\ req.method = "GET" => StoreUnchanged
    /\ IsGetById =>
          \A e \in pre.lastRead :
              e.id = req.id => (res.status = 200 /\ res.data = e.data)

\* C10 witness: a second read of a product, with reads of another id between
C10_Witness ==
    /\ IsGetById
    /\ Cardinality(pre.lastRead) = 2
    /\ \E e \in pre.lastRead : e.id = req.id
    /\ res.status = 200


\* C11: after any sequence of requests, accepted or rejected, every stored
\* product has a non-empty name and a price (a number) above 0.
C11_StoredProductsValid ==
    \A p \in products : Len(p.name) > 0 /\ p.price > 0

\* C11 witness: two stored products, one with a price sent as a string of
\* digits, after a PUT that the rules rejected
C11_Witness ==
    /\ IsPut
    /\ res.status = 400
    /\ Cardinality(products) = 2
    /\ \E p \in products : p.price = 300


\* C13: PATCH /:id on a stored product, sent without a body, is answered 200
\* with the updated product; the product's availability is negated, its id,
\* name and price and every other product are unchanged, and a second PATCH
\* of the same id on the resulting table is answered 200 with the original
\* product and restores the table.
C13_PatchToggles ==
    (IsPatch /\ Addressed # {}) =>
        /\ res.status = 200
        /\ res.keys = {"data"}
        /\ nextId = pre.nextId
        /\ \E old \in Addressed :
              LET new == [id |-> old.id, name |-> old.name, price |-> old.price,
                          availability |-> ~old.availability]
                  again == Dispatch(RouteOf(req), req, products, nextId)
              IN  /\ products = (pre.products \ {old}) \cup {new}
                  /\ res.data = <<new>>
                  /\ again.res.status = 200
                  /\ again.res.data = <<old>>
                  /\ again.products = pre.products

\* C13 witness: a PATCH that makes an unavailable product available again,
\* another product being stored
C13_Witness ==
    /\ IsPatch
    /\ res.status = 200
    /\ Cardinality(pre.products) = 2
    /\ \E old \in Addressed : old.availability = FALSE
    /\ \E p \in products : p.id = StringToNumber(req.id.s).v /\ p.availability = TRUE


\* C12: when db.authenticate() rejects, connectDB catches the error, logs a
\* string holding "Hubo un error al conectar la base de datos", does not call
\* db.sync() and returns normally: its promise does not reject.
C12_ConnectErrorHandled ==
    db.auth = "rejected" =>
        /\ db.pc = "done"
        /\ ~db.thrown
        /\ ~db.synced
        /\ \E i \in 1..Len(db.log) : db.log[i] = LogString(MsgConnectError)

\* C12 witness: connectDB has returned after a rejected db.authenticate()
C12_Witness ==
    /\ db.auth = "rejected"
    /\ db.pc = "done"
    /\ Len(db.log) = 2

====
